---- MODULE Spec2Model ----
(***************************************************************************)
(* City-tank: the authoritative game server (src/server/index.js).         *)
(*                                                                         *)
(* The server is one Node.js event loop: every socket handler, every       *)
(* setInterval callback and every setTimeout callback runs to completion,  *)
(* so each of them is one atomic action here.  Date.now() is the variable  *)
(* now (milliseconds).  The two setInterval tasks (combat tick, liveness   *)
(* sweep) may run at any moment, which covers ticks that are skipped or    *)
(* delayed; a bullet's setTimeout fires when its 3000 ms have elapsed:     *)
(* time does not advance past a pending deadline.                          *)
(*                                                                         *)
(* socket.io gives every connection a fresh identity; the model hands out  *)
(* 1, 2, 3, ... in the order of connecting, so that ascending identity is  *)
(* also the insertion order of the players Map (the order of forEach).     *)
(*                                                                         *)
(* The browser side is one page with its AudioManager                      *)
(* (src/client/audio.js) and the Game that owns it (src/unnamed/part_002): *)
(* again one event loop, one action per callback; the asynchronous init()  *)
(* is two steps, up to and after its await of getUserMedia.                *)
(***************************************************************************)
EXTENDS Integers, Sequences, FiniteSets, TLC

---------------------------------------------------------------------------
(* Bounds of the exploration *)
MaxConn == 3
MaxTanks == 2
MaxBullets == 2
MaxPackets == 1
StartTime == 1000
MaxTime == 1300
MaxDisconnects == 2
MaxFrames == 2
MaxSample == 65536
MaxAttempts == 6
MaxAltTimers == 2
MaxOvershoot == 2
MaxVolley == 16
MaxRetries == 2

(* Program constants *)
ArenaWidth == 800
ArenaHeight == 600
Margin == 20
InitialHealth == 100
ShootCooldown == 200
BulletSpeed == 300
BulletLifetime == 3000
TickRate == 60
HitRadius == 20
Damage == 10
AudioRadius == 300
AudioTimeout == 5000
InactivityTimeout == 600000
Int16Max == 32767
Int16Min == -32768
ReconnectionLimit == 5
PlayerSpeed == 100
FrameRate == 60
AudioStateLifetime == 10000
ClientCooldown == 500
SilenceThreshold == 10

---------------------------------------------------------------------------
(* JavaScript values that reach the handlers.  A number is an integer or   *)
(* NaN; "string" stands for a non-numeric, non-empty string; "undefined"   *)
(* for a missing field.                                                    *)
Num(n) == [t |-> "number", nan |-> FALSE, v |-> n]
NaN == [t |-> "number", nan |-> TRUE, v |-> 0]
Str == [t |-> "string", nan |-> FALSE, v |-> 0]
Undef == [t |-> "undefined", nan |-> FALSE, v |-> 0]

typeof(a) == a.t

(* JS truthiness: 0, NaN and undefined are falsy, a non-empty string and   *)
(* every other number are truthy.                                          *)
Truthy(a) ==
    CASE a.t = "number" -> ~a.nan /\ a.v # 0
      [] a.t = "string" -> TRUE
      [] OTHER -> FALSE

(* Math.min / Math.max on numbers: NaN if either argument is NaN. *)
MathMin(a, b) ==
    IF a.nan \/ b.nan THEN NaN ELSE IF a.v <= b.v THEN a ELSE b

MathMax(a, b) ==
    IF a.nan \/ b.nan THEN NaN ELSE IF a.v >= b.v THEN a ELSE b

(* a + n, a - b and a * b in JS arithmetic; a non-numeric string operand   *)
(* of * converts to NaN.                                                   *)
Plus(a, b) ==
    IF a.t # "number" \/ b.t # "number" \/ a.nan \/ b.nan THEN NaN ELSE Num(a.v + b.v)

Minus(a, b) ==
    IF a.t # "number" \/ b.t # "number" \/ a.nan \/ b.nan THEN NaN ELSE Num(a.v - b.v)

Times(a, b) ==
    IF a.t # "number" \/ b.t # "number" \/ a.nan \/ b.nan THEN NaN ELSE Num(a.v * b.v)

(* Comparisons with NaN are false. *)
Less(a, b) == ~a.nan /\ ~b.nan /\ a.v < b.v
Greater(a, b) == ~a.nan /\ ~b.nan /\ a.v > b.v
LessEq(a, b) == ~a.nan /\ ~b.nan /\ a.v <= b.v

(* Math.cos / Math.sin of angle * PI / 180 for the headings the model      *)
(* uses.  In double arithmetic cos(0) = 1 and cos(PI) = -1 exactly, and    *)
(* sin(PI) * 5 is below half an ulp of every coordinate in use, so the     *)
(* orthogonal component adds nothing.                                      *)
Cos(angle) ==
    IF angle.t # "number" \/ angle.nan THEN NaN
    ELSE CASE angle.v = 0 -> Num(1)
           [] angle.v = 180 -> Num(-1)
           [] OTHER -> Num(0)

Sin(angle) ==
    IF angle.t # "number" \/ angle.nan THEN NaN
    ELSE CASE angle.v = 90 -> Num(1)
           [] angle.v = 270 -> Num(-1)
           [] OTHER -> Num(0)

---------------------------------------------------------------------------
VARIABLES
    now,              \* Date.now()
    nextConn,         \* number of connections accepted so far
    open,             \* identities of the sockets that are connected
    players,          \* gameState.players: identity -> Player
    bullets,          \* gameState.bullets: bullet id -> Bullet
    bulletIdCounter,  \* bulletIdCounter
    timers,           \* pending setTimeout of playerShoot: bullet id -> deadline
    totalPackets,     \* audioStats.totalPackets
    out,              \* the messages the last handler emitted, in order
    nDestroyed,       \* history: bulletDestroyed broadcasts per bullet id
    nLeft,            \* history: playerLeft broadcasts per identity
    created,          \* history: bullet id -> owner and time of its bulletCreated
    audio,            \* the page's AudioManager: its fields and its init()
    socket,           \* the page's Game.socket and its Manager
    game,             \* the page's Game: connection fields and the two Maps
    altTimers,        \* pending setTimeout of tryAlternativeConnection
    attempts,         \* history: automatic connection attempts since the last connect
    page,             \* "loaded" until beforeunload has run
    destroyed,        \* history: calls of AudioManager.destroy() that returned
    frames,           \* history: audioStream messages the page emitted
    pcm,              \* the samples given to compressAudio
    heard,            \* the samples decompressAudio returned for them
    talk              \* the push-to-talk AudioManager (part_000)

serverVars == <<now, nextConn, open, players, bullets, bulletIdCounter, timers,
                totalPackets, out, nDestroyed, nLeft, created>>

(* what the handlers of the server, of the Game and of the AudioManager of *)
(* src/client/audio.js leave alone                                          *)
codecVars == <<pcm, heard, talk>>

gameVars == <<socket, game, altTimers, attempts>>

clientVars == <<audio, gameVars, page, destroyed, frames, codecVars>>

vars == <<serverVars, clientVars>>

ConnIds == 1..MaxConn
BulletIds == 0..(MaxBullets - 1)

NoArg == [none |-> TRUE]

(* One emitted message: event name, the identity it is about, the set of   *)
(* connections it is delivered to, and the rest of its payload.            *)
Msg(ev, id, to, arg) == [ev |-> ev, id |-> id, to |-> to, arg |-> arg]

(* io.emit reaches every connected socket, socket.broadcast.emit every     *)
(* connected socket but the sender.                                        *)
IoEmit(ev, id, arg) == Msg(ev, id, open, arg)
BroadcastEmit(c, ev, id, arg) == Msg(ev, id, open \ {c}, arg)

Remove(f, k) == [i \in DOMAIN f \ {k} |-> f[i]]
Put(f, k, v) == [i \in DOMAIN f \cup {k} |-> IF i = k THEN v ELSE f[i]]

---------------------------------------------------------------------------
(* Inputs *)

(* Math.random() * 760 + 20 and Math.random() * 560 + 20 *)
(* in [20, 780) x [20, 580) *)
SpawnPoints == {<<770, 570>>, <<770, 270>>}

(* playerMove payloads: null, or an object with fields x, y, angle *)
MoveData(x, y, angle) == [null |-> FALSE, x |-> x, y |-> y, angle |-> angle]
NullData == [null |-> TRUE, x |-> Undef, y |-> Undef, angle |-> Undef]

MoveInputs ==
    { MoveData(Num(-100), Num(50), Num(180)),
      MoveData(Num(900), Num(700), Num(0)),
      MoveData(Num(790), Num(580), Undef),
      MoveData(Num(790), Num(580), Str),
      MoveData(NaN, Num(50), Num(0)),
      MoveData(Str, Num(50), Num(0)),
      MoveData(Num(50), Undef, Num(0)),
      NullData }

(* audioStream payloads: null, or an object whose data field is present or  *)
(* missing (no capture timestamp)                                           *)
AudioInputs ==
    { [null |-> FALSE, data |-> TRUE],
      [null |-> FALSE, data |-> FALSE],
      [null |-> TRUE, data |-> FALSE] }

(* audioStateChanged payloads: the enabled field *)
Bool(b) == [t |-> "boolean", nan |-> FALSE, v |-> IF b THEN 1 ELSE 0]
AudioStateInputs == { Bool(TRUE), Bool(FALSE), Str }

ShortStep == 100

(* io(options) has returned: the socket is opening its first connection    *)
(* (autoConnect).  first tells the socket of the constructor from a socket  *)
(* of tryAlternativeConnection; tries is the Manager's count of             *)
(* reconnection attempts since it was last connected; arriving tells that   *)
(* the opening request has reached the server; sent holds the messages the  *)
(* page has emitted that have not reached the server yet, oldest first.     *)
NewSocket(first) ==
    [link |-> "dialing", id |-> 0, arriving |-> FALSE, tries |-> 0, first |-> first,
     sent |-> <<>>]

(* new Game() has returned *)
NewGame ==
    [connectionState |-> "connecting", reconnectionAttempts |-> 0,
     myPlayerId |-> 0, players |-> <<>>, bullets |-> <<>>,
     lastShoot |-> 0, playerAudioStates |-> <<>>]

(* new AudioManager(socket) has returned: the constructor built the audio   *)
(* UI and ran init() up to its await of getUserMedia: the AudioContext      *)
(* exists, suspended until the first click or touch, and the microphone is  *)
(* not there yet.  played counts the frames the manager has played,         *)
(* openContexts the AudioContexts it has created and not closed.            *)
NewAudioManager ==
    [init |-> "pending", audioContext |-> "suspended", microphone |-> "null",
     processor |-> "null", gainNode |-> "null", isInitialized |-> FALSE,
     isTransmitting |-> FALSE, isMuted |-> FALSE, audioUI |-> TRUE,
     played |-> 0, openContexts |-> 1]

(* new AudioManager(socket) of the push-to-talk variant has returned: the   *)
(* keyboard controls are set up, setupAudioContext() has created the        *)
(* context, suspended until the first click or touch, and init() awaits     *)
(* getUserMedia.                                                            *)
(* packetsTransmitted counts the chunks sent; pressedFrom is history: the   *)
(* value of isTransmitting before a press of KeyV that nothing has          *)
(* followed yet.                                                            *)
NewTalkManager ==
    [init |-> "pending", audioContext |-> "suspended",
     mediaRecorder |-> "null", isRecording |-> FALSE,
     isTransmitting |-> FALSE, isMuted |-> FALSE, isPushToTalk |-> FALSE,
     packetsTransmitted |-> 0, pressedFrom |-> "none"]

InitGame ==
    /\ talk = NewTalkManager
    /\ now = StartTime
    /\ nextConn = 0
    /\ open = {}
    /\ players = <<>>
    /\ bullets = <<>>
    /\ bulletIdCounter = 0
    /\ timers = <<>>
    /\ totalPackets = 0
    /\ out = <<>>
    /\ nDestroyed = [b \in BulletIds |-> 0]
    /\ nLeft = [c \in ConnIds |-> 0]
    /\ created = <<>>
    /\ audio = NewAudioManager
    /\ socket = NewSocket(TRUE)
    /\ game = NewGame
    /\ altTimers = 0
    /\ attempts = 0
    /\ page = "loaded"
    /\ destroyed = 0
    /\ frames = 0

Init ==
    /\ InitGame
    /\ pcm = <<>>
    /\ heard = <<>>

---------------------------------------------------------------------------
(* The socket handlers of the page's Game (setupEnhancedSocketEvents)      *)

(* A value as the page receives it: JSON.stringify writes NaN as null *)
Null == [t |-> "object", nan |-> FALSE, v |-> 0]

Json(a) == IF a.t = "number" /\ a.nan THEN Null ELSE a

(* what the page keeps of a Player and of a bullet it was sent *)
ReceivedPlayer(p) == [x |-> Json(p.x), y |-> Json(p.y), angle |-> Json(p.angle)]

ReceivedBullet(b) ==
    [playerId |-> b.playerId, x |-> Json(b.x), y |-> Json(b.y),
     angle |-> Json(b.angle), speed |-> b.speed]

(* Map.set for every entry of a received array *)
SetPlayers(map, received) ==
    [k \in DOMAIN map \cup DOMAIN received |->
        IF k \in DOMAIN received THEN ReceivedPlayer(received[k]) ELSE map[k]]

SetBullets(map, received) ==
    [k \in DOMAIN map \cup DOMAIN received |->
        IF k \in DOMAIN received THEN ReceivedBullet(received[k]) ELSE map[k]]

OnConnect(g, id) ==
    [g EXCEPT !.myPlayerId = id,
              !.connectionState = "connected",
              !.reconnectionAttempts = 0]

OnGameState(g, state) ==
    [g EXCEPT !.players = SetPlayers(g.players, state.players),
              !.bullets = SetBullets(g.bullets, state.bullets)]

OnPlayerJoined(g, id, player) ==
    [g EXCEPT !.players = Put(g.players, id, ReceivedPlayer(player))]

OnPlayerMoved(g, id, data) ==
    IF id \in DOMAIN g.players
    THEN [g EXCEPT !.players[id] = ReceivedPlayer(data)]
    ELSE g

OnPlayerLeft(g, id) ==
    [g EXCEPT !.players = Remove(g.players, id),
              !.playerAudioStates = Remove(g.playerAudioStates, id)]

OnBulletCreated(g, id, bullet) ==
    [g EXCEPT !.bullets = Put(g.bullets, id, ReceivedBullet(bullet))]

OnBulletDestroyedClears(g, id) == [g EXCEPT !.bullets = <<>>]

OnBulletDestroyed(g, id) == [g EXCEPT !.bullets = Remove(g.bullets, id)]

(* lastUpdate is Date.now() of the page, whose clock is the server's here *)
OnPlayerAudioState(g, id, data) ==
    [g EXCEPT !.playerAudioStates =
        Put(g.playerAudioStates, id,
            [audioEnabled |-> data.audioEnabled, lastUpdate |-> now])]

(* the handler of one message; the Game has none for playerDamaged, and     *)
(* the handler of audioStream leaves these fields alone                     *)
OnMessage(g, m) ==
    CASE m.ev = "gameState" -> OnGameState(g, m.arg)
      [] m.ev = "playerJoined" -> OnPlayerJoined(g, m.id, m.arg)
      [] m.ev = "playerMoved" -> OnPlayerMoved(g, m.id, m.arg)
      [] m.ev = "playerLeft" -> OnPlayerLeft(g, m.id)
      [] m.ev = "bulletCreated" -> OnBulletCreated(g, m.id, m.arg)
      [] m.ev = "bulletDestroyed" -> OnBulletDestroyed(g, m.id)
      [] m.ev = "playerAudioState" -> OnPlayerAudioState(g, m.id, m.arg)
      [] OTHER -> g

(* the messages of s that are delivered to the connection id, handled in    *)
(* the order they were sent                                                 *)
RECURSIVE OnMessages(_, _, _)
OnMessages(g, s, id) ==
    IF s = <<>> THEN g
    ELSE OnMessages(IF id \in Head(s).to THEN OnMessage(g, Head(s)) ELSE g,
                    Tail(s), id)

(* socket.on('audioStream') of the page's AudioManager: playAudioStream     *)
(* returns at once unless the context is running, else it plays the frame   *)
playAudioStream(a) ==
    IF a.audioContext = "running" THEN [a EXCEPT !.played = @ + 1] ELSE a

RECURSIVE OnAudioStreams(_, _, _)
OnAudioStreams(a, s, id) ==
    IF s = <<>> THEN a
    ELSE OnAudioStreams(IF id \in Head(s).to /\ Head(s).ev = "audioStream"
                        THEN playAudioStream(a) ELSE a,
                       Tail(s), id)

(* What a handler of the server does to the page.  When the opening         *)
(* request of the page's socket has reached the server, the connection the  *)
(* server accepts is the page's: the socket connects under the new          *)
(* identity, 'connect' runs, then the messages sent to it are handled.      *)
(* While the socket is connected the page handles every message sent to     *)
(* its identity.                                                            *)
PageHears ==
    IF socket.arriving /\ nextConn' # nextConn
    THEN /\ socket' = [socket EXCEPT !.link = "open", !.id = nextConn',
                                     !.arriving = FALSE, !.tries = 0]
         /\ game' = OnMessages(OnConnect(game, nextConn'), out', nextConn')
         /\ attempts' = 0
         /\ audio' = OnAudioStreams(audio, out', nextConn')
         /\ UNCHANGED <<altTimers, page, destroyed, frames, codecVars>>
    ELSE IF socket.link = "open"
    THEN /\ game' = OnMessages(game, out', socket.id)
         /\ audio' = OnAudioStreams(audio, out', socket.id)
         /\ UNCHANGED <<socket, altTimers, attempts, page, destroyed, frames,
                        codecVars>>
    ELSE UNCHANGED clientVars

---------------------------------------------------------------------------
(* io.on('connection') *)
NewPlayerOverHealth(p) ==
    [x |-> Num(p[1]), y |-> Num(p[2]), angle |-> Num(0),
     health |-> InitialHealth + Damage, audioEnabled |-> FALSE,
     lastAudioPacket |-> now, connectedAt |-> now,
     lastActivity |-> 0, lastShoot |-> 0]

NewPlayer(p) ==
    [x |-> Num(p[1]), y |-> Num(p[2]), angle |-> Num(0),
     health |-> InitialHealth, audioEnabled |-> FALSE,
     lastAudioPacket |-> now, connectedAt |-> now,
     lastActivity |-> 0, lastShoot |-> 0]

(* the payload of gameState: Array.from of the two Maps, taken after the    *)
(* new Player was stored                                                    *)
SnapshotBeforeJoin(c, np) == [players |-> players, bullets |-> bullets]

Snapshot(c, np) == [players |-> Put(players, c, np), bullets |-> bullets]

Connect(p) ==
    /\ nextConn < MaxConn
    /\ LET c == nextConn + 1
           np == NewPlayer(p)
       IN /\ nextConn' = c
          /\ open' = open \cup {c}
          /\ players' = Put(players, c, np)
          /\ out' = << Msg("gameState", c, {c}, Snapshot(c, np)),
                       Msg("playerJoined", c, open \ {c}, np) >>
    /\ UNCHANGED <<now, bullets, bulletIdCounter, timers, totalPackets,
                   nDestroyed, nLeft, created>>
    /\ PageHears

(* socket.on('playerMove') *)
MoveAccepted(c, data) ==
    /\ c \in DOMAIN players
    /\ ~data.null
    /\ typeof(data.x) = "number"
    /\ typeof(data.y) = "number"

ClampXOff(x) == x

ClampX(x) == MathMax(Num(Margin), MathMin(Num(ArenaWidth), x))
ClampY(y) == MathMax(Num(Margin), MathMin(Num(ArenaHeight), y))
AngleOrZero(angle) == IF Truthy(angle) THEN angle ELSE Num(0)

Moved(p, data) ==
    [p EXCEPT !.x = ClampX(data.x),
              !.y = ClampY(data.y),
              !.angle = AngleOrZero(data.angle),
              !.lastActivity = now]

(* what the handler does to the server *)
HandleMove(c, data) ==
    /\ c \in open
    /\ IF MoveAccepted(c, data)
       THEN LET p == Moved(players[c], data)
            IN /\ players' = [players EXCEPT ![c] = p]
               /\ out' = << BroadcastEmit(c, "playerMoved", c,
                               [x |-> p.x, y |-> p.y, angle |-> p.angle]) >>
       ELSE /\ out' = <<>>
            /\ UNCHANGED players
    /\ UNCHANGED <<now, nextConn, open, bullets, bulletIdCounter, timers,
                   totalPackets, nDestroyed, nLeft, created>>

PlayerMove(c, data) ==
    /\ HandleMove(c, data)
    /\ PageHears

(* socket.on('playerShoot') *)
RateLimitAnyGap(p) == p.lastShoot = 0 \/ now - p.lastShoot > 0

RateLimitOk(p) == p.lastShoot = 0 \/ now - p.lastShoot > ShootCooldown

ShootAccepted(c) == c \in DOMAIN players /\ RateLimitOk(players[c])

NewBulletUnaimed(c) ==
    [id |-> bulletIdCounter, playerId |-> c, x |-> players[c].x,
     y |-> players[c].y, angle |-> Num(0), speed |-> BulletSpeed,
     createdAt |-> now]

NewBullet(c) ==
    [id |-> bulletIdCounter, playerId |-> c, x |-> players[c].x,
     y |-> players[c].y, angle |-> players[c].angle, speed |-> BulletSpeed,
     createdAt |-> now]

(* bulletIdCounter++ : the value of the counter after the statement *)
PostIncrementStuck(n) == n

PostIncrement(n) == n + 1

LateDeadline == now + 2 * BulletLifetime

SlowDeadline == now + BulletLifetime + ShootCooldown + 1

TimerDeadline == now + BulletLifetime

ShotStampsActivity(p) == [p EXCEPT !.lastShoot = now, !.lastActivity = now]

(* player.lastShoot = now *)
Shot(p) == [p EXCEPT !.lastShoot = now]

(* what the handler does to the server, in a run of at most cap bullets *)
HandleShootUpTo(c, cap) ==
    /\ c \in open
    /\ IF ShootAccepted(c)
       THEN /\ bulletIdCounter < cap
            /\ players' = [players EXCEPT ![c] = Shot(@)]
            /\ bullets' = Put(bullets, bulletIdCounter, NewBullet(c))
            /\ bulletIdCounter' = PostIncrement(bulletIdCounter)
            /\ timers' = Put(timers, bulletIdCounter, TimerDeadline)
            /\ out' = << IoEmit("bulletCreated", bulletIdCounter, NewBullet(c)) >>
            /\ created' = Put(created, bulletIdCounter, [owner |-> c, at |-> now])
       ELSE /\ out' = <<>>
            /\ UNCHANGED <<players, bullets, bulletIdCounter, timers, created>>
    /\ UNCHANGED <<now, nextConn, open, totalPackets, nDestroyed, nLeft>>

HandleShoot(c) == HandleShootUpTo(c, MaxBullets)

PlayerShoot(c) ==
    /\ HandleShoot(c)
    /\ PageHears

(* the handler in a long run of shots *)
Volley(c) ==
    /\ HandleShootUpTo(c, MaxVolley)
    /\ PageHears

(* The setTimeout callback of playerShoot *)
ExpireBullet(b) ==
    /\ b \in DOMAIN timers
    /\ timers[b] <= now
    /\ timers' = Remove(timers, b)
    /\ bullets' = Remove(bullets, b)
    /\ out' = << IoEmit("bulletDestroyed", b, NoArg) >>
    /\ nDestroyed' = [nDestroyed EXCEPT ![b] = @ + 1]
    /\ UNCHANGED <<now, nextConn, open, players, bulletIdCounter, totalPackets, nLeft, created>>
    /\ PageHears

---------------------------------------------------------------------------
(* getNearbyPlayers(player, radius): the identities, in Map order *)
Square(a) == Times(a, a)

DistanceSq(ax, ay, bx, by) == Plus(Square(Minus(ax, bx)), Square(Minus(ay, by)))

IsNearby(c, o, radius) ==
    /\ o # c
    /\ LessEq(DistanceSq(players[c].x, players[c].y, players[o].x, players[o].y),
              Num(radius * radius))

getNearbyPlayersInside(c, radius) ==
    {o \in DOMAIN players : IsNearby(c, o, radius - 1)}

getNearbyPlayers(c, radius) == {o \in DOMAIN players : IsNearby(c, o, radius)}

(* The elements of a set of integers in ascending order (Map insertion order) *)
RECURSIVE Ascending(_)
Ascending(S) ==
    IF S = {} THEN <<>>
    ELSE LET m == CHOOSE x \in S : \A y \in S : x <= y
         IN <<m>> \o Ascending(S \ {m})

(* socket.on('audioStream') *)
AudioAccepted(c, audioData) ==
    c \in DOMAIN players /\ ~audioData.null /\ audioData.data

(* socket.to(id).emit reaches the socket of that identity, never the sender *)
ToEmit(c, id, ev, arg) == Msg(ev, c, ({id} \cap open) \ {c}, arg)

AudioRelay(c) ==
    LET nearby == Ascending(getNearbyPlayers(c, AudioRadius))
    IN IF Len(nearby) > 0
       THEN [i \in 1..Len(nearby) |-> ToEmit(c, nearby[i], "audioStream", NoArg)]
       ELSE << BroadcastEmit(c, "audioStream", c, NoArg) >>

AudioStream(c, audioData) ==
    /\ c \in open
    /\ totalPackets < MaxPackets
    /\ totalPackets' = totalPackets + 1
    /\ IF AudioAccepted(c, audioData)
       THEN /\ players' = [players EXCEPT ![c].audioEnabled = TRUE,
                                          ![c].lastAudioPacket = now]
            /\ out' = AudioRelay(c)
       ELSE /\ out' = <<>>
            /\ UNCHANGED players
    /\ UNCHANGED <<now, nextConn, open, bullets, bulletIdCounter, timers,
                   nDestroyed, nLeft, created>>
    /\ PageHears

(* socket.on('audioStateChanged') *)
AudioStateAnyType(c, enabled) == c \in DOMAIN players

AudioStateAccepted(c, enabled) ==
    c \in DOMAIN players /\ typeof(enabled) = "boolean"

AudioStateChanged(c, enabled) ==
    /\ c \in open
    /\ IF AudioStateAccepted(c, enabled)
       THEN /\ players' = [players EXCEPT ![c].audioEnabled = (enabled.v = 1)]
            /\ out' = << BroadcastEmit(c, "playerAudioState", c,
                                       [audioEnabled |-> (enabled.v = 1)]) >>
       ELSE /\ out' = <<>>
            /\ UNCHANGED players
    /\ UNCHANGED <<now, nextConn, open, bullets, bulletIdCounter, timers,
                   totalPackets, nDestroyed, nLeft, created>>
    /\ PageHears

(* socket.on('disconnect') *)
DisconnectKeepsPlayer(c) ==
    /\ c \in open
    /\ open' = open \ {c}
    /\ out' = << BroadcastEmit(c, "playerLeft", c, NoArg) >>
    /\ nLeft' = [nLeft EXCEPT ![c] = @ + 1]
    /\ UNCHANGED <<now, nextConn, players, bullets, bulletIdCounter, timers,
                   totalPackets, nDestroyed, created>>
    /\ PageHears

Disconnect(c) ==
    /\ c \in open
    /\ open' = open \ {c}
    /\ players' = Remove(players, c)
    /\ out' = << BroadcastEmit(c, "playerLeft", c, NoArg) >>
    /\ nLeft' = [nLeft EXCEPT ![c] = @ + 1]
    /\ UNCHANGED <<now, nextConn, bullets, bulletIdCounter, timers, totalPackets,
                   nDestroyed, created>>
    /\ PageHears

---------------------------------------------------------------------------
(* The game loop, setInterval(..., 1000 / 60) *)
StepLength(b) == b.speed \div TickRate

Advance(b) ==
    [b EXCEPT !.x = Plus(b.x, Times(Cos(b.angle), Num(StepLength(b)))),
              !.y = Plus(b.y, Times(Sin(b.angle), Num(StepLength(b))))]

OutOfBounds(b) ==
    \/ Less(b.x, Num(0))
    \/ Greater(b.x, Num(ArenaWidth))
    \/ Less(b.y, Num(0))
    \/ Greater(b.y, Num(ArenaHeight))

HitsOwnerToo(b, p) ==
    Less(DistanceSq(b.x, b.y, players[p].x, players[p].y), Num(HitRadius * HitRadius))

HitsOfLiveOwner(b, p) ==
    /\ Less(DistanceSq(b.x, b.y, players[p].x, players[p].y), Num(HitRadius * HitRadius))
    /\ p # b.playerId
    /\ b.playerId \in DOMAIN players

(* distance < 20 and player.id !== bullet.playerId, for the moved bullet b *)
Hits(b, p) ==
    /\ Less(DistanceSq(b.x, b.y, players[p].x, players[p].y), Num(HitRadius * HitRadius))
    /\ p # b.playerId

(* The inner players.forEach: it runs over every player, also after a hit *)
HitPlayers(b) == Ascending({p \in DOMAIN players : Hits(b, p)})

RECURSIVE HitEvents(_, _)
HitEvents(id, ps) ==
    IF ps = <<>> THEN <<>>
    ELSE << IoEmit("playerDamaged", Head(ps), [damage |-> Damage, bullet |-> id]),
            IoEmit("bulletDestroyed", id, NoArg) >> \o HitEvents(id, Tail(ps))

(* What one iteration of bullets.forEach emits for bullet id *)
BulletEvents(id) ==
    LET b == Advance(bullets[id])
    IN IF OutOfBounds(b)
       THEN << IoEmit("bulletDestroyed", id, NoArg) >>
       ELSE HitEvents(id, HitPlayers(b))

(* ... and whether it deletes the bullet *)
BulletDeleted(id) ==
    LET b == Advance(bullets[id])
    IN OutOfBounds(b) \/ HitPlayers(b) # <<>>

RECURSIVE TickEvents(_)
TickEvents(ids) ==
    IF ids = <<>> THEN <<>>
    ELSE BulletEvents(Head(ids)) \o TickEvents(Tail(ids))

CountEv(s, ev, id) == Cardinality({i \in 1..Len(s) : s[i].ev = ev /\ s[i].id = id})

Tick ==
    /\ DOMAIN bullets # {}
    /\ bullets' = [id \in {i \in DOMAIN bullets : ~BulletDeleted(i)} |->
                      Advance(bullets[id])]
    /\ out' = TickEvents(Ascending(DOMAIN bullets))
    /\ nDestroyed' = [id \in BulletIds |->
                         nDestroyed[id] + CountEv(out', "bulletDestroyed", id)]
    /\ UNCHANGED <<now, nextConn, open, players, bulletIdCounter, timers,
                   totalPackets, nLeft, created>>
    /\ PageHears

---------------------------------------------------------------------------
(* Cleanup of inactive players, setInterval(..., 2000) *)
AudioTimedOutLate(p) == p.audioEnabled /\ now - p.lastAudioPacket > 2 * AudioTimeout

AudioTimedOut(p) == p.audioEnabled /\ now - p.lastAudioPacket > AudioTimeout

Inactive(p) == p.lastActivity # 0 /\ now - p.lastActivity > InactivityTimeout

Evicted == {c \in DOMAIN players : Inactive(players[c])}

Sweep ==
    /\ players' = [c \in DOMAIN players \ Evicted |->
                      IF AudioTimedOut(players[c])
                      THEN [players[c] EXCEPT !.audioEnabled = FALSE]
                      ELSE players[c]]
    /\ out' = [i \in 1..Cardinality(Evicted) |->
                  IoEmit("playerLeft", Ascending(Evicted)[i], NoArg)]
    /\ nLeft' = [c \in ConnIds |-> IF c \in Evicted THEN nLeft[c] + 1 ELSE nLeft[c]]
    /\ UNCHANGED <<now, nextConn, open, bullets, bulletIdCounter, timers,
                   totalPackets, nDestroyed, created>>
    /\ PageHears

---------------------------------------------------------------------------
(* The clock.  A pending bullet timeout fires at its deadline, so time     *)
(* never passes one.                                                       *)
NextDeadline == CHOOSE t \in {timers[b] : b \in DOMAIN timers} :
                    \A b \in DOMAIN timers : t <= timers[b]

(* Delays the exploration tries: a short step, the wait for the next       *)
(* bullet timeout, and one wait longer than the inactivity timeout.        *)
ShortDelays == IF now + ShortStep <= MaxTime THEN {ShortStep} ELSE {}

TimerDelays ==
    IF DOMAIN timers # {} /\ NextDeadline > now THEN {NextDeadline - now} ELSE {}

(* a wait just beyond the audio timeout, at most twice in a row *)
AudioDelays ==
    IF now <= MaxTime + AudioTimeout + 1 THEN {AudioTimeout + 1} ELSE {}

LongDelays == IF now <= MaxTime THEN {InactivityTimeout + 1} ELSE {}

AdvanceTime(d) ==
    /\ d > 0
    /\ \A b \in DOMAIN timers : now + d <= timers[b]
    /\ now' = now + d
    /\ out' = <<>>
    /\ UNCHANGED <<nextConn, open, players, bullets, bulletIdCounter, timers,
                   totalPackets, nDestroyed, nLeft, created>>
    /\ UNCHANGED clientVars

---------------------------------------------------------------------------
(* The page: AudioManager (src/client/audio.js) and Game (part_002)         *)

(* The first click or touch: resumeContext resumes a suspended context.     *)
UserGesture ==
    /\ page = "loaded"
    /\ audio.audioContext = "suspended"
    /\ audio' = [audio EXCEPT !.audioContext = "running"]
    /\ UNCHANGED <<gameVars, page, destroyed, frames>>
    /\ UNCHANGED <<serverVars, codecVars>>

(* setupAudioProcessing: the source, gain and processor nodes are created   *)
(* and connected.  On a context that is closed, createMediaStreamSource     *)
(* throws in some browsers (throws = TRUE): the catch leaves both fields    *)
(* null; in the others the nodes are created on the closed context.         *)
setupAudioProcessing(a, throws) ==
    IF a.audioContext = "closed" /\ throws
    THEN a
    ELSE [a EXCEPT !.gainNode = "connected", !.processor = "connected"]

startTransmitting(a) == [a EXCEPT !.isTransmitting = TRUE]

stopTransmitting(a) == [a EXCEPT !.isTransmitting = FALSE]

(* init() after getUserMedia has resolved with the stream *)
InitGranted(throws) ==
    /\ page = "loaded"
    /\ audio.init = "pending"
    /\ audio' = startTransmitting(
                    [setupAudioProcessing([audio EXCEPT !.microphone = "live"], throws)
                        EXCEPT !.isInitialized = TRUE, !.init = "done"])
    /\ UNCHANGED <<gameVars, page, destroyed, frames>>
    /\ UNCHANGED <<serverVars, codecVars>>

(* init() after getUserMedia has rejected: the catch reports the error *)
InitDenied ==
    /\ page = "loaded"
    /\ audio.init = "pending"
    /\ audio' = [audio EXCEPT !.init = "failed"]
    /\ UNCHANGED <<gameVars, page, destroyed, frames>>
    /\ UNCHANGED <<serverVars, codecVars>>

(* The retry button that handleAudioError shows (part_003): its click runs  *)
(* init() again, which creates an AudioContext (running: the click is a     *)
(* user gesture) and awaits getUserMedia; the context of the failed attempt *)
(* is no longer referenced and was never closed.                            *)
RetryInit(a) ==
    [a EXCEPT !.init = "pending", !.audioContext = "running",
              !.openContexts = @ + 1]

Retry ==
    /\ page = "loaded"
    /\ audio.init = "failed"
    /\ audio.audioUI
    /\ audio.openContexts <= MaxRetries
    /\ audio' = RetryInit(audio)
    /\ UNCHANGED <<gameVars, page, destroyed, frames>>
    /\ UNCHANGED <<serverVars, codecVars>>

(* processor.onaudioprocess: the browser calls it for a processor that is   *)
(* connected in a running context; it emits audioStream unless the manager  *)
(* is not transmitting or is muted.                                         *)
EmitsWhenMuted(a) == a.isTransmitting

Emits(a) == a.isTransmitting /\ ~a.isMuted

AudioProcess ==
    /\ page = "loaded"
    /\ audio.processor = "connected"
    /\ audio.audioContext = "running"
    /\ frames < MaxFrames
    /\ frames' = IF Emits(audio) THEN frames + 1 ELSE frames
    /\ UNCHANGED <<audio, gameVars, page, destroyed>>
    /\ UNCHANGED <<serverVars, codecVars>>

(* onaudioprocess of the silence-suppressing AudioManager (part_003), for a *)
(* block whose RMS is volume (in thousandths): a block below the threshold  *)
(* is not sent                                                              *)
BlockVolumes == {0, SilenceThreshold - 1, SilenceThreshold, 500}

EmitsLoud(a, volume) == Emits(a) /\ ~(volume < SilenceThreshold)

AudioProcessGated(volume) ==
    /\ page = "loaded"
    /\ audio.processor = "connected"
    /\ audio.audioContext = "running"
    /\ frames < MaxFrames
    /\ frames' = IF EmitsLoud(audio, volume) THEN frames + 1 ELSE frames
    /\ UNCHANGED <<audio, gameVars, page, destroyed>>
    /\ UNCHANGED <<serverVars, codecVars>>

(* toggleMicrophone(), from key T of Game.setupControls *)
ToggleMicrophone ==
    /\ page = "loaded"
    /\ audio' = IF audio.isTransmitting THEN stopTransmitting(audio)
                ELSE startTransmitting(audio)
    /\ UNCHANGED <<gameVars, page, destroyed, frames>>
    /\ UNCHANGED <<serverVars, codecVars>>

(* toggleMute(), from key M of Game.setupControls *)
ToggleMute ==
    /\ page = "loaded"
    /\ audio' = [audio EXCEPT !.isMuted = ~@]
    /\ UNCHANGED <<gameVars, page, destroyed, frames>>
    /\ UNCHANGED <<serverVars, codecVars>>

(* AudioManager.destroy().  AudioContext.close() sets the state of the      *)
(* context to closed before it returns.                                     *)
destroy(a) ==
    [a EXCEPT !.isTransmitting = FALSE,
              !.processor = "null",
              !.gainNode = IF @ = "null" THEN "null" ELSE "disconnected",
              !.microphone = IF @ = "null" THEN "null" ELSE "stopped",
              !.audioContext = "closed",
              !.openContexts = IF a.audioContext = "closed" THEN @ ELSE @ - 1,
              !.audioUI = FALSE]

(* The push-to-talk AudioManager (part_000) *)
OnOff(b) == IF b THEN "on" ELSE "off"

(* an action of the manager that is not a key of push-to-talk *)
TalkStep(t) ==
    /\ page = "loaded"
    /\ talk' = [t EXCEPT !.pressedFrom = "none"]
    /\ UNCHANGED <<serverVars, audio, gameVars, page, destroyed, frames, pcm, heard>>

startRecording(t) ==
    IF t.mediaRecorder = "inactive"
    THEN [t EXCEPT !.mediaRecorder = "recording", !.isRecording = TRUE]
    ELSE t

stopRecording(t) ==
    IF t.mediaRecorder = "recording"
    THEN [t EXCEPT !.mediaRecorder = "inactive", !.isRecording = FALSE,
                   !.isTransmitting = FALSE]
    ELSE t

(* setupMediaRecorder(): without a supported format it throws before the    *)
(* recorder is created, and its catch reports the error                     *)
setupMediaRecorder(t, supported) ==
    IF supported THEN startRecording([t EXCEPT !.mediaRecorder = "inactive"]) ELSE t

(* resumeContext, on the first click or touch *)
TalkGesture ==
    /\ talk.audioContext = "suspended"
    /\ TalkStep([talk EXCEPT !.audioContext = "running"])

(* init() after getUserMedia has resolved *)
TalkInitGranted(supported) ==
    /\ talk.init = "pending"
    /\ TalkStep([setupMediaRecorder(talk, supported)
                    EXCEPT !.isTransmitting = TRUE, !.init = "done"])

(* init() after getUserMedia has rejected *)
TalkInitDenied ==
    /\ talk.init = "pending"
    /\ TalkStep([talk EXCEPT !.init = "failed"])

(* key T *)
toggleMicrophone(t) ==
    IF t.isRecording THEN stopRecording(t)
    ELSE [startRecording(t) EXCEPT !.isTransmitting = TRUE]

TalkToggleMicrophone == TalkStep(toggleMicrophone(talk))

(* key M *)
TalkToggleMute == TalkStep([talk EXCEPT !.isMuted = ~@])

(* mediaRecorder.ondataavailable, every 200 ms while recording, for a chunk *)
(* that is not empty                                                        *)
TalkChunk ==
    /\ talk.mediaRecorder = "recording"
    /\ talk.packetsTransmitted < MaxFrames
    /\ TalkStep(IF talk.isTransmitting /\ ~talk.isMuted
                THEN [talk EXCEPT !.packetsTransmitted = @ + 1]
                ELSE talk)

startTransmission(t) == [t EXCEPT !.isTransmitting = TRUE]

stopTransmission(t) == [t EXCEPT !.isTransmitting = FALSE]

(* keydown of KeyV that is not a repeat *)
KeyVDown ==
    /\ page = "loaded"
    /\ talk' = IF ~talk.isPushToTalk
               THEN [startTransmission(talk)
                        EXCEPT !.isPushToTalk = TRUE,
                               !.pressedFrom = OnOff(talk.isTransmitting)]
               ELSE [talk EXCEPT !.pressedFrom = "none"]
    /\ UNCHANGED <<serverVars, audio, gameVars, page, destroyed, frames, pcm, heard>>

(* keyup of KeyV *)
KeyVUp ==
    /\ page = "loaded"
    /\ talk' = IF talk.isPushToTalk
               THEN [stopTransmission(talk)
                        EXCEPT !.isPushToTalk = FALSE, !.pressedFrom = "none"]
               ELSE [talk EXCEPT !.pressedFrom = "none"]
    /\ UNCHANGED <<serverVars, audio, gameVars, page, destroyed, frames, pcm, heard>>

(* Game.update(), one frame of the game loop of the page, for a deflection  *)
(* move of the joystick (window.mobileControls.move, in tenths).  The       *)
(* position of the page's own player is advanced, with no clamp, and sent   *)
(* in playerMove; the bullets of the Map are advanced.                      *)
Tenths == 10

Deflections == {<<6, 0>>, <<0, 6>>}

(* Math.atan2(moveY, moveX) * 180 / Math.PI on the axes *)
Atan2Degrees(moveY, moveX) ==
    CASE moveY = 0 /\ moveX > 0 -> 0
      [] moveY > 0 /\ moveX = 0 -> 90
      [] moveY = 0 /\ moveX < 0 -> 180
      [] OTHER -> -90

(* a received value in arithmetic: null counts as 0 *)
ToNumber(a) == IF a = Null THEN Num(0) ELSE a

(* moveX * speed * deltaTime *)
FrameStep(m) == (m * PlayerSpeed) \div (Tenths * FrameRate)

MovedLocally(me, move) ==
    [me EXCEPT !.x = Plus(ToNumber(@), Num(FrameStep(move[1]))),
               !.y = Plus(ToNumber(@), Num(FrameStep(move[2]))),
               !.angle = Num(Atan2Degrees(move[2], move[1]))]

AdvanceReceived(b) ==
    Advance([b EXCEPT !.x = ToNumber(@), !.y = ToNumber(@), !.angle = ToNumber(@)])

cleanupAudioStates(states) ==
    [id \in {k \in DOMAIN states : ~(now - states[k].lastUpdate > AudioStateLifetime)}
        |-> states[id]]

(* The frame, and with it the server's handling of the playerMove that the  *)
(* frame emits: the page has sent nothing else in between.                  *)
Update(move) ==
    /\ page = "loaded"
    /\ socket.link = "open"
    /\ game.myPlayerId \in DOMAIN game.players
    /\ LET me == MovedLocally(game.players[game.myPlayerId], move)
           g == [game EXCEPT !.players[game.myPlayerId] = me,
                             !.bullets = [b \in DOMAIN game.bullets |->
                                             AdvanceReceived(game.bullets[b])],
                             !.playerAudioStates = cleanupAudioStates(@)]
       IN /\ me.x.v <= ArenaWidth + MaxOvershoot
          /\ me.y.v <= ArenaHeight + MaxOvershoot
          /\ HandleMove(socket.id, MoveData(me.x, me.y, me.angle))
          /\ game' = OnMessages(g, out', socket.id)
    /\ UNCHANGED <<audio, socket, altTimers, attempts, page, destroyed, frames,
                   codecVars>>

(* Game.shoot(), on the Space key or the shoot button: within the cooldown  *)
(* of the page it returns at once, else the page emits playerShoot          *)
ShootAllowed(g) == ~(now - g.lastShoot < ClientCooldown)

Shoot ==
    /\ page = "loaded"
    /\ socket.link = "open"
    /\ IF ShootAllowed(game)
       THEN /\ game' = [game EXCEPT !.lastShoot = now]
            /\ socket' = [socket EXCEPT !.sent = Append(@, "playerShoot")]
       ELSE UNCHANGED <<game, socket>>
    /\ UNCHANGED <<audio, altTimers, attempts, page, destroyed, frames>>
    /\ UNCHANGED <<serverVars, codecVars>>

(* The oldest playerShoot of the page that is still under way reaches the   *)
(* server, which handles it                                                 *)
ShootArrives ==
    /\ socket.link = "open"
    /\ socket.sent # <<>>
    /\ Head(socket.sent) = "playerShoot"
    /\ HandleShoot(socket.id)
    /\ socket' = [socket EXCEPT !.sent = Tail(@)]
    /\ game' = OnMessages(game, out', socket.id)
    /\ UNCHANGED <<audio, altTimers, attempts, page, destroyed, frames, codecVars>>

(* The opening request of the page's socket reaches the server *)
Handshake ==
    /\ page = "loaded"
    /\ socket.link = "dialing"
    /\ ~socket.arriving
    /\ socket' = [socket EXCEPT !.arriving = TRUE]
    /\ UNCHANGED <<audio, game, altTimers, attempts, page, destroyed, frames>>
    /\ UNCHANGED <<serverVars, codecVars>>

(* tryAlternativeConnection(): one more timeout of 2000 ms is pending *)
tryAlternativeConnection(n) == n + 1

(* socket.on('connect_error'): the opening request failed; the Manager      *)
(* waits (reconnectionDelay) before it tries again                          *)
ConnectError ==
    /\ page = "loaded"
    /\ socket.link = "dialing"
    /\ ~socket.arriving
    /\ altTimers < MaxAltTimers
    /\ socket' = [socket EXCEPT !.link = "waiting"]
    /\ game' = [game EXCEPT !.connectionState = "error"]
    /\ altTimers' = tryAlternativeConnection(altTimers)
    /\ UNCHANGED <<audio, attempts, page, destroyed, frames>>
    /\ UNCHANGED <<serverVars, codecVars>>

(* The limit of reconnection attempts of a socket.  No option of            *)
(* socket.io-client is named maxReconnectionAttempts (its option is         *)
(* reconnectionAttempts, Infinity by default), and the socket of            *)
(* tryAlternativeConnection is made without any such option: the Manager    *)
(* may try again after any number of failed attempts.  A Manager that       *)
(* reads the option of the first socket as its limit gives up after 5.      *)
MayGiveUp(sock) == sock.first /\ sock.tries >= ReconnectionLimit

(* socket.on('reconnect_attempt'): the Manager opens a connection again *)
ReconnectAttempt ==
    /\ page = "loaded"
    /\ socket.link = "waiting"
    /\ attempts < MaxAttempts
    /\ socket' = [socket EXCEPT !.link = "dialing", !.tries = @ + 1]
    /\ game' = [game EXCEPT !.connectionState = "reconnecting",
                            !.reconnectionAttempts = socket.tries + 1]
    /\ attempts' = attempts + 1
    /\ UNCHANGED <<audio, altTimers, page, destroyed, frames>>
    /\ UNCHANGED <<serverVars, codecVars>>

(* socket.on('reconnect_failed'): the Manager has given up.  Every failed   *)
(* attempt arms a timeout of tryAlternativeConnection, and at most          *)
(* MaxAltTimers of them are pending at a time (an attempt follows the one   *)
(* before by reconnectionDelay or more, a timeout fires after 2000 ms), so  *)
(* the socket is replaced before a Manager has failed 5 times.              *)
ReconnectFailed ==
    /\ page = "loaded"
    /\ socket.link = "waiting"
    /\ MayGiveUp(socket)
    /\ socket' = [socket EXCEPT !.link = "closed"]
    /\ game' = [game EXCEPT !.connectionState = "failed"]
    /\ UNCHANGED <<audio, altTimers, attempts, page, destroyed, frames>>
    /\ UNCHANGED <<serverVars, codecVars>>

(* The timeout of tryAlternativeConnection fires: if the socket is not      *)
(* connected it is closed and replaced by a new one (polling only), which   *)
(* opens a connection at once, and the handlers are set on it.              *)
AlternativeConnection ==
    /\ page = "loaded"
    /\ altTimers > 0
    /\ altTimers' = altTimers - 1
    /\ IF socket.link # "open"
       THEN /\ attempts < MaxAttempts
            /\ socket' = NewSocket(FALSE)
            /\ attempts' = attempts + 1
       ELSE UNCHANGED <<socket, attempts>>
    /\ UNCHANGED <<audio, game, page, destroyed, frames>>
    /\ UNCHANGED <<serverVars, codecVars>>

(* socket.on('disconnect') of Game: the page finds its connection dropped   *)
(* (transport close, ping timeout); the Manager will open it again          *)
SocketDisconnect ==
    /\ page = "loaded"
    /\ socket.link = "open"
    /\ destroyed < MaxDisconnects
    /\ socket' = [socket EXCEPT !.link = "waiting", !.id = 0, !.sent = <<>>]
    /\ game' = [game EXCEPT !.connectionState = "disconnected"]
    /\ audio' = destroy(audio)
    /\ destroyed' = destroyed + 1
    /\ UNCHANGED <<altTimers, attempts, page, frames>>
    /\ UNCHANGED <<serverVars, codecVars>>

(* beforeunload: Game.destroy() calls audio.destroy() and then              *)
(* socket.disconnect(), which on a connected socket runs the disconnect     *)
(* handler at once, and with it audio.destroy() a second time.              *)
PageUnload ==
    /\ page = "loaded"
    /\ page' = "unloaded"
    /\ socket' = [socket EXCEPT !.link = "closed", !.id = 0, !.arriving = FALSE]
    /\ game' = IF socket.link = "open"
               THEN [game EXCEPT !.connectionState = "disconnected"]
               ELSE game
    /\ audio' = IF socket.link = "open" THEN destroy(destroy(audio)) ELSE destroy(audio)
    /\ destroyed' = IF socket.link = "open" THEN destroyed + 2 ELSE destroyed + 1
    /\ UNCHANGED <<altTimers, attempts, frames>>
    /\ UNCHANGED <<serverVars, codecVars>>

---------------------------------------------------------------------------
(* The audio codec of the page: compressAudio and decompressAudio.         *)
(*                                                                          *)
(* A sample of the Float32Array is the integer m that stands for the       *)
(* number m / SampleUnit: every such number of [-1, 1] is a Float32.  The  *)
(* product of a sample and 32767 is exact in the doubles of JavaScript; it *)
(* is kept as its numerator over SampleUnit.                               *)
SampleUnit == 65536

Samples == (-MaxSample)..MaxSample

(* Math.max(-32768, Math.min(32767, x)) for x = num / SampleUnit *)
Clamp16(num) ==
    LET hi == Int16Max * SampleUnit
        lo == -hi - SampleUnit
        m == IF num < hi THEN num ELSE hi
    IN IF m > lo THEN m ELSE lo

(* Storing the number num / SampleUnit in an Int16Array: ToInt16 drops the  *)
(* fraction (towards zero) and wraps modulo 2^16 into [-32768, 32767]       *)
Truncate(num) ==
    IF num >= 0 THEN num \div SampleUnit ELSE -((-num) \div SampleUnit)

ToInt16(num) ==
    ((Truncate(num) - Int16Min) % (2 * (Int16Max + 1))) + Int16Min

compressSample(m) == ToInt16(Clamp16(m * Int16Max))

compressAudio(audioData) ==
    [i \in 1..Len(audioData) |-> compressSample(audioData[i])]

(* A Float32: the number n / 2^p, negated if neg, with a significand n of  *)
(* 24 bits (2^23 <= n < 2^24), or zero.                                     *)
TwoTo23 == 8388608

Float32(neg, n, p) == [neg |-> neg, n |-> n, p |-> p]

Float32Zero == Float32(FALSE, 0, 0)

(* Storing a / d in a Float32Array, for integers a >= 0 and d > 0 with     *)
(* a <= d: the quotient is developed bit by bit (n the bits so far, r the  *)
(* remainder) until the significand is full, then rounded to the nearest   *)
(* Float32, a tie to the even significand.                                  *)
RoundFloat32(n, r, p, d) ==
    LET up == 2 * r > d \/ (2 * r = d /\ n % 2 = 1)
        m == IF up THEN n + 1 ELSE n
    IN IF m = 2 * TwoTo23 THEN [n |-> TwoTo23, p |-> p - 1] ELSE [n |-> m, p |-> p]

RECURSIVE Significand(_, _, _, _)
Significand(n, r, p, d) ==
    IF n >= TwoTo23 THEN RoundFloat32(n, r, p, d)
    ELSE LET bit == IF 2 * r >= d THEN 1 ELSE 0
         IN Significand(2 * n + bit, 2 * r - bit * d, p + 1, d)

Fround(a, d) ==
    IF a = 0 THEN Float32Zero
    ELSE LET abs == IF a < 0 THEN -a ELSE a
             f == Significand(abs \div d, abs % d, 0, d)
         IN Float32(a < 0, f.n, f.p)

decompressSampleBy32768(q) == Fround(q, Int16Max + 1)

decompressSample(q) == Fround(q, Int16Max)

decompressAudio(compressedData) ==
    [i \in 1..Len(compressedData) |-> decompressSample(compressedData[i])]

(* a sender compresses the samples pcm, a receiver decompresses them *)
RoundTrip ==
    /\ pcm # <<>>
    /\ heard = <<>>
    /\ heard' = decompressAudio(compressAudio(pcm))
    /\ UNCHANGED <<pcm, talk>>
    /\ UNCHANGED <<serverVars, audio, gameVars, page, destroyed, frames>>

---------------------------------------------------------------------------
(* Specifications.  Next is the server and a page.  The claims are checked *)
(* on parts of it, each with the handlers and inputs its claims are about, *)
(* so that every run is exhaustive within the bounds.                      *)

(* Combat: up to MaxTanks players join and place themselves at StartTime;  *)
(* then the clock runs over shooting, the game loop and the bullet         *)
(* timeouts.                                                               *)
CombatSpawns == {<<770, 570>>}

CombatMoves ==
    { MoveData(Num(900), Num(700), Num(0)),
      MoveData(Num(790), Num(580), Str) }

NextCombat ==
    \/ \E p \in CombatSpawns : (now = StartTime /\ nextConn < MaxTanks /\ Connect(p))
    \/ \E c \in ConnIds, data \in CombatMoves : (now = StartTime /\ PlayerMove(c, data))
    \/ \E c \in ConnIds : PlayerShoot(c)
    \/ \E b \in BulletIds : ExpireBullet(b)
    \/ Tick
    \/ \E d \in ShortDelays \cup TimerDelays : AdvanceTime(d)

SpecCombat == Init /\ [][NextCombat]_vars

(* Hit: one instant of combat among up to MaxConn players: joining,        *)
(* placing, shooting and the game loop, the clock standing still.          *)
NextHit ==
    \/ \E p \in CombatSpawns : Connect(p)
    \/ \E c \in ConnIds, data \in CombatMoves : PlayerMove(c, data)
    \/ \E c \in ConnIds : PlayerShoot(c)
    \/ Tick

SpecHit == Init /\ [][NextHit]_vars

(* Duel: one instant of combat among up to MaxTanks players that come,     *)
(* place and turn themselves and shoot, the clock standing still.          *)
DuelMoves ==
    { MoveData(Num(900), Num(700), Num(0)),
      MoveData(Num(790), Num(580), Num(90)) }

NextDuel ==
    \/ \E p \in CombatSpawns : (nextConn < MaxTanks /\ Connect(p))
    \/ \E c \in ConnIds, data \in DuelMoves : PlayerMove(c, data)
    \/ \E c \in ConnIds : PlayerShoot(c)
    \/ Tick

SpecDuel == Init /\ [][NextDuel]_vars

(* Join: connections coming and going while bullets are in flight, the     *)
(* clock standing still.                                                   *)
NextJoin ==
    \/ \E p \in CombatSpawns : Connect(p)
    \/ \E c \in ConnIds : Disconnect(c)
    \/ \E c \in ConnIds : PlayerShoot(c)
    \/ Tick

SpecJoin == Init /\ [][NextJoin]_vars

(* Move: connections that come, move with every kind of payload, and go   *)
NextMove ==
    \/ \E p \in SpawnPoints : Connect(p)
    \/ \E c \in ConnIds : Disconnect(c)
    \/ \E c \in ConnIds, data \in MoveInputs : PlayerMove(c, data)

SpecMove == Init /\ [][NextMove]_vars

(* Session: connecting, moving, leaving and the liveness sweep, with one   *)
(* wait longer than the inactivity timeout.                                *)
NextSession ==
    \/ \E p \in SpawnPoints : Connect(p)
    \/ \E c \in ConnIds : Disconnect(c)
    \/ \E c \in ConnIds, data \in MoveInputs : PlayerMove(c, data)
    \/ Sweep
    \/ \E d \in LongDelays : AdvanceTime(d)

SpecSession == Init /\ [][NextSession]_vars

(* Audio: the relay, among players that are near, far or at NaN, and       *)
(* connections whose Player the sweep has removed.                         *)
AudioMoves ==
    { MoveData(Num(-100), Num(50), Num(180)),
      MoveData(NaN, Num(50), Num(0)) }

NextAudio ==
    \/ \E p \in SpawnPoints : Connect(p)
    \/ \E c \in ConnIds : Disconnect(c)
    \/ \E c \in ConnIds, data \in AudioMoves : PlayerMove(c, data)
    \/ \E c \in ConnIds, audioData \in AudioInputs : AudioStream(c, audioData)
    \/ Sweep
    \/ \E d \in LongDelays : AdvanceTime(d)

SpecAudio == Init /\ [][NextAudio]_vars

(* Timeout: players that move and stream, the liveness sweep, and waits    *)
(* beyond the audio timeout and beyond the inactivity timeout.             *)
TimeoutMoves == { MoveData(Num(-100), Num(50), Num(180)) }

NextTimeout ==
    \/ \E p \in CombatSpawns : Connect(p)
    \/ \E c \in ConnIds, data \in TimeoutMoves : PlayerMove(c, data)
    \/ \E c \in ConnIds, audioData \in AudioInputs : AudioStream(c, audioData)
    \/ Sweep
    \/ \E d \in AudioDelays \cup LongDelays : AdvanceTime(d)

SpecTimeout == Init /\ [][NextTimeout]_vars

(* Voice: players switching their audio flag, among connections that      *)
(* come, go, or lose their Player to the sweep.                            *)
NextVoice ==
    \/ \E p \in CombatSpawns : Connect(p)
    \/ \E c \in ConnIds : Disconnect(c)
    \/ \E c \in ConnIds, data \in TimeoutMoves : PlayerMove(c, data)
    \/ \E c \in ConnIds, enabled \in AudioStateInputs : AudioStateChanged(c, enabled)
    \/ Sweep
    \/ \E d \in LongDelays : AdvanceTime(d)

SpecVoice == Init /\ [][NextVoice]_vars

(* Life: up to MaxTanks players through a session: joining, moving,        *)
(* idling beyond the inactivity timeout, being swept, shooting, being hit  *)
(* and leaving.  The runs end before the first bullet timeout: no wait     *)
(* passes a pending deadline.                                              *)
LifeMoves == { MoveData(Num(900), Num(700), Num(0)) }

NextLife ==
    \/ \E p \in CombatSpawns : (nextConn < MaxTanks /\ Connect(p))
    \/ \E c \in ConnIds : Disconnect(c)
    \/ \E c \in ConnIds, data \in LifeMoves : PlayerMove(c, data)
    \/ \E c \in ConnIds : PlayerShoot(c)
    \/ Tick
    \/ Sweep
    \/ \E d \in LongDelays : AdvanceTime(d)

SpecLife == Init /\ [][NextLife]_vars

(* Codec: every array of one sample, through compressAudio and             *)
(* decompressAudio                                                         *)
InitCodec ==
    /\ InitGame
    /\ pcm \in {<<m>> : m \in Samples}
    /\ heard = <<>>

NextCodec == RoundTrip

SpecCodec == InitCodec /\ [][NextCodec]_vars

(* Connection: the page's socket against a server that is reachable at     *)
(* times                                                                   *)
NextConnection ==
    \/ Handshake
    \/ \E p \in CombatSpawns : (socket.arriving /\ Connect(p))
    \/ ConnectError
    \/ ReconnectAttempt
    \/ AlternativeConnection
    \/ SocketDisconnect

SpecConnection == Init /\ [][NextConnection]_vars

(* Mirror: the page and the other connections, up to MaxTanks in all, that *)
(* come, move, shoot and go                                                *)
MirrorMoves ==
    { MoveData(Num(900), Num(700), Num(0)),
      MoveData(NaN, Num(50), Num(0)) }

NextMirror ==
    \/ Handshake
    \/ \E p \in CombatSpawns : (nextConn < MaxTanks /\ Connect(p))
    \/ \E c \in ConnIds : Disconnect(c)
    \/ \E c \in ConnIds, data \in MirrorMoves : PlayerMove(c, data)
    \/ \E c \in ConnIds : PlayerShoot(c)
    \/ Tick

SpecMirror == Init /\ [][NextMirror]_vars

(* Rejoin: the page, whose connection drops and is opened again, and       *)
(* other connections, up to MaxTanks identities in all, that come, shoot   *)
(* and go                                                                  *)
NextRejoin ==
    \/ Handshake
    \/ \E p \in CombatSpawns : (nextConn < MaxTanks /\ Connect(p))
    \/ \E c \in ConnIds : Disconnect(c)
    \/ \E c \in ConnIds : PlayerShoot(c)
    \/ Tick
    \/ SocketDisconnect
    \/ ReconnectAttempt

SpecRejoin == Init /\ [][NextRejoin]_vars

(* Predict: the page steers its own player to the right and down           *)
NextPredict ==
    \/ Handshake
    \/ \E p \in CombatSpawns : (socket.arriving /\ Connect(p))
    \/ \E move \in Deflections : Update(move)

SpecPredict == Init /\ [][NextPredict]_vars

SwitchInputs == { Bool(TRUE), Bool(FALSE) }

StreamInputs == { [null |-> FALSE, data |-> TRUE] }

(* Idle: players that move, shoot, stream and switch their audio flag, the  *)
(* liveness sweep, and one wait longer than the inactivity timeout, within  *)
(* the lifetime of the bullets                                              *)
(* the connections that send messages; the others only connect *)
Talkers == {1}

NextIdle ==
    \/ \E p \in CombatSpawns : (nextConn < MaxTanks /\ Connect(p))
    \/ \E c \in ConnIds, data \in TimeoutMoves : PlayerMove(c, data)
    \/ \E c \in Talkers : PlayerShoot(c)
    \/ \E c \in Talkers, audioData \in StreamInputs : AudioStream(c, audioData)
    \/ \E c \in Talkers, enabled \in SwitchInputs : AudioStateChanged(c, enabled)
    \/ Sweep
    \/ \E d \in LongDelays : AdvanceTime(d)

SpecIdle == Init /\ [][NextIdle]_vars

(* Jitter: the page shoots as often as its cooldown lets it, and its        *)
(* requests reach the server after any delay, in the order they were sent   *)
CooldownDelays == IF now <= MaxTime THEN {ClientCooldown} ELSE {}

NextJitter ==
    \/ Handshake
    \/ \E p \in CombatSpawns : (socket.arriving /\ Connect(p))
    \/ Shoot
    \/ ShootArrives
    \/ \E d \in ShortDelays \cup CooldownDelays : AdvanceTime(d)

SpecJitter == Init /\ [][NextJitter]_vars

(* Barrage: one player shoots as fast as the rate limit lets it, while     *)
(* the bullet timeouts fire on time and no tick runs.  After an accepted    *)
(* shot the player waits for the cooldown, or for 1 ms more, or for the     *)
(* next bullet timeout.                                                     *)
VolleyIds == 0..(MaxVolley - 1)

VolleyEnd == StartTime + MaxVolley * (ShootCooldown + 1)

VolleyDelays ==
    IF now < VolleyEnd /\ \E c \in DOMAIN players : players[c].lastShoot = now
    THEN {ShootCooldown, ShootCooldown + 1}
    ELSE {}

NextBarrage ==
    \/ \E p \in CombatSpawns : (nextConn < 1 /\ Connect(p))
    \/ \E c \in ConnIds : Volley(c)
    \/ \E b \in VolleyIds : ExpireBullet(b)
    \/ \E d \in VolleyDelays \cup TimerDelays : AdvanceTime(d)

SpecBarrage == Init /\ [][NextBarrage]_vars

(* Expiry: the page and other players shoot, the game loop destroys        *)
(* bullets, and the clock runs up to the bullet timeouts                    *)
NextExpiry ==
    \/ Handshake
    \/ \E p \in CombatSpawns : (nextConn < MaxTanks /\ Connect(p))
    \/ \E c \in ConnIds : PlayerShoot(c)
    \/ Tick
    \/ \E b \in BulletIds : ExpireBullet(b)
    \/ \E d \in TimerDelays : AdvanceTime(d)

SpecExpiry == Init /\ [][NextExpiry]_vars

(* Mute: the page switches its microphone and its mute while it captures   *)
(* blocks and while another player streams to it                            *)
NextMute ==
    \/ Handshake
    \/ \E p \in CombatSpawns : (nextConn < MaxTanks /\ Connect(p))
    \/ UserGesture
    \/ \E throws \in BOOLEAN : InitGranted(throws)
    \/ ToggleMicrophone
    \/ ToggleMute
    \/ AudioProcess
    \/ \E volume \in BlockVolumes : AudioProcessGated(volume)
    \/ \E c \in ConnIds, audioData \in StreamInputs : AudioStream(c, audioData)

SpecMute == Init /\ [][NextMute]_vars

(* Retry: the page's AudioManager whose getUserMedia fails, is retried by   *)
(* the user, and succeeds or fails again, until the page loses its          *)
(* connection or is left                                                    *)
NextRetry ==
    \/ UserGesture
    \/ \E throws \in BOOLEAN : InitGranted(throws)
    \/ InitDenied
    \/ Retry
    \/ AudioProcess
    \/ ToggleMicrophone
    \/ ToggleMute
    \/ Handshake
    \/ \E p \in CombatSpawns : (socket.arriving /\ Connect(p))
    \/ SocketDisconnect
    \/ PageUnload

SpecRetry == Init /\ [][NextRetry]_vars

(* Talk: the push-to-talk AudioManager and its keys *)
NextTalk ==
    \/ TalkGesture
    \/ \E supported \in BOOLEAN : TalkInitGranted(supported)
    \/ TalkInitDenied
    \/ TalkToggleMicrophone
    \/ TalkToggleMute
    \/ TalkChunk
    \/ KeyVDown
    \/ KeyVUp

SpecTalk == Init /\ [][NextTalk]_vars

(* Indicator: the page among players that switch their audio flag, stream  *)
(* audio and fall silent beyond the audio timeout                           *)

NextIndicator ==
    \/ Handshake
    \/ \E p \in CombatSpawns : (nextConn < MaxTanks /\ Connect(p))
    \/ \E c \in ConnIds, enabled \in SwitchInputs : AudioStateChanged(c, enabled)
    \/ \E c \in ConnIds, audioData \in StreamInputs : AudioStream(c, audioData)
    \/ Sweep
    \/ \E d \in AudioDelays : AdvanceTime(d)

SpecIndicator == Init /\ [][NextIndicator]_vars

(* Page: the life of one page and its AudioManager *)
NextPage ==
    \/ UserGesture
    \/ \E throws \in BOOLEAN : InitGranted(throws)
    \/ InitDenied
    \/ AudioProcess
    \/ ToggleMicrophone
    \/ ToggleMute
    \/ Handshake
    \/ \E p \in CombatSpawns : (socket.arriving /\ Connect(p))
    \/ SocketDisconnect
    \/ ReconnectAttempt
    \/ PageUnload

SpecPage == Init /\ [][NextPage]_vars

Next ==
    \/ \E p \in SpawnPoints : Connect(p)
    \/ \E c \in ConnIds : Disconnect(c)
    \/ \E c \in ConnIds, data \in MoveInputs : PlayerMove(c, data)
    \/ \E c \in ConnIds : PlayerShoot(c)
    \/ \E c \in ConnIds, audioData \in AudioInputs : AudioStream(c, audioData)
    \/ \E c \in ConnIds, enabled \in AudioStateInputs : AudioStateChanged(c, enabled)
    \/ \E b \in BulletIds : ExpireBullet(b)
    \/ Tick
    \/ Sweep
    \/ \E d \in ShortDelays \cup TimerDelays \cup AudioDelays \cup LongDelays :
          AdvanceTime(d)
    \/ NextPage
    \/ NextConnection
    \/ \E move \in Deflections : Update(move)
    \/ Shoot
    \/ ShootArrives
    \/ \E c \in ConnIds : Volley(c)
    \/ \E volume \in BlockVolumes : AudioProcessGated(volume)
    \/ Retry
    \/ NextTalk
    \/ ReconnectFailed
    \/ RoundTrip

Spec == Init /\ [][Next]_vars
---------------------------------------------------------------------------
(* Properties of combat, checked under SpecCombat (C2: SpecHit) *)

(* a is a number (not NaN) in [lo, hi] *)
InsideMargin(a, lo, hi) == a.t = "number" /\ ~a.nan /\ lo <= a.v /\ a.v <= hi

Damaged(s, b) ==
    Cardinality({i \in 1..Len(s) : s[i].ev = "playerDamaged" /\ s[i].arg.bullet = b})

(* C1: bulletDestroyed is broadcast at most once for every bullet identity, *)
(* whichever of out-of-bounds, collision and the expiry timer comes first;  *)
(* the timer of a bullet that is already destroyed broadcasts nothing.      *)
(* Stated over handler runs: once a handler has broadcast the destruction   *)
(* of a bullet, no later handler broadcasts it again.                       *)
C1_DestroyedOnce ==
    [][\A b \in BulletIds : nDestroyed[b] >= 1 => nDestroyed'[b] = nDestroyed[b]]_vars

(* C2: the messages of one combat tick hold, for a bullet that hit some     *)
(* player, exactly one playerDamaged and exactly one bulletDestroyed.       *)
C2_OneHitPerTick ==
    \A b \in BulletIds :
        Damaged(out, b) >= 1 =>
            /\ Damaged(out, b) = 1
            /\ CountEv(out, "bulletDestroyed", b) = 1

(* C4: two bullets of one connection are never created less than 200 ms     *)
(* apart.                                                                   *)
C4_ShotsSpacedApart ==
    \A b1, b2 \in DOMAIN created :
        (b1 < b2 /\ created[b1].owner = created[b2].owner)
            => created[b2].at - created[b1].at >= ShootCooldown

(* two bullets of one connection exist, the second 300 ms after the first   *)
(* (the requests 100 ms and 200 ms after the first were open to it too)     *)
C4_Witness ==
    \E b1, b2 \in DOMAIN created :
        /\ b1 < b2
        /\ created[b1].owner = created[b2].owner
        /\ created[b2].at - created[b1].at = 3 * ShortStep

C13_BulletIdsIncrease ==
    [][\A i \in 1..Len(out') :
          out'[i].ev = "bulletCreated" =>
              \A a \in DOMAIN created : out'[i].id > a
      ]_vars

(* the last handler created a bullet for one connection after the bullet    *)
(* of another connection had been destroyed                                 *)
C13_Witness ==
    \E b1, b2 \in DOMAIN created :
        /\ b1 < b2
        /\ created[b1].owner # created[b2].owner
        /\ nDestroyed[b1] >= 1
        /\ b1 \notin DOMAIN bullets
        /\ Len(out) = 1
        /\ out[1].ev = "bulletCreated"
        /\ out[1].id = b2

(* C12: when a combat tick has run, every bullet left in the store lies     *)
(* inside the arena [0, 800] x [0, 600]: a bullet that the tick moved       *)
(* outside was removed by that tick.                                        *)
InArena(b) ==
    /\ InsideMargin(b.x, 0, ArenaWidth)
    /\ InsideMargin(b.y, 0, ArenaHeight)

C12_TickLeavesBulletsInArena ==
    [][Tick => \A id \in DOMAIN bullets' : InArena(bullets'[id])]_vars

(* the number of messages ev in s that are delivered to connection r *)
Delivered(s, ev, r) ==
    Cardinality({i \in 1..Len(s) : s[i].ev = ev /\ r \in s[i].to})

(* C14: when a connection c is accepted, gameState goes once to c and to    *)
(* nobody else, and lists every Player of the store (the Player of c among  *)
(* them) and every bullet of the store; playerJoined for the Player of c    *)
(* goes once to every other connection and not to c.  (Under SpecJoin.)     *)
C14_ConnectSnapshot ==
    [][nextConn' # nextConn =>
          LET c == nextConn'
          IN /\ \A r \in ConnIds :
                    /\ Delivered(out', "gameState", r) = IF r = c THEN 1 ELSE 0
                    /\ Delivered(out', "playerJoined", r) =
                           IF r \in open' \ {c} THEN 1 ELSE 0
             /\ \A i \in 1..Len(out') :
                    /\ out'[i].ev = "gameState" =>
                           /\ out'[i].arg.players = players'
                           /\ c \in DOMAIN out'[i].arg.players
                           /\ out'[i].arg.bullets = bullets'
                    /\ out'[i].ev = "playerJoined" =>
                           /\ out'[i].id = c
                           /\ out'[i].arg = players'[c]
      ]_vars

(* the third connection joined while a bullet was in flight: its snapshot   *)
(* lists three Players and the bullet, the two others got playerJoined      *)
C14_Witness ==
    /\ Len(out) = 2
    /\ out[1].ev = "gameState"
    /\ out[1].to = {3}
    /\ Cardinality(DOMAIN out[1].arg.players) = 3
    /\ DOMAIN out[1].arg.bullets # {}
    /\ out[2].ev = "playerJoined"
    /\ out[2].to = {1, 2}

---------------------------------------------------------------------------
(* Properties of sessions, checked under SpecSession *)

(* C3: every stored position lies in [20, 780] x [20, 580].                 *)
C3_PositionInsideMargin ==
    \A c \in DOMAIN players :
        /\ InsideMargin(players[c].x, Margin, ArenaWidth - Margin)
        /\ InsideMargin(players[c].y, Margin, ArenaHeight - Margin)

(* C6: a disconnect of a connection that has a Player removes the Player    *)
(* and sends one playerLeft with its identity to every other connection,    *)
(* the only playerLeft ever sent for it; once a connection is closed no     *)
(* handler (the liveness sweep among them) sends playerLeft for it.         *)
Closed(a) == a <= nextConn /\ a \notin open

C6_DisconnectLeavesOnce ==
    [][\A a \in ConnIds :
          /\ (a \in open /\ a \notin open' /\ a \in DOMAIN players) =>
                /\ a \notin DOMAIN players'
                /\ Len(out') = 1
                /\ out'[1].ev = "playerLeft"
                /\ out'[1].id = a
                /\ out'[1].to = open \ {a}
                /\ nLeft'[a] = 1
          /\ Closed(a) => nLeft'[a] = nLeft[a]
      ]_vars

(* a left by disconnecting while two others stayed; later the sweep ran     *)
(* and evicted b, which is its last run: it sent playerLeft for b only      *)
C6_Witness ==
    \E a, b \in ConnIds :
        /\ Closed(a)
        /\ nLeft[a] = 1
        /\ b \in open
        /\ b \notin DOMAIN players
        /\ Cardinality(open) = 2
        /\ Len(out) = 1
        /\ out[1].ev = "playerLeft"
        /\ out[1].id = b
        /\ b \in out[1].to

(* C7: at most one playerLeft is ever emitted per connection identity.      *)
C7_LeftAtMostOnce == \A c \in ConnIds : nLeft[c] <= 1

(* C9: a playerMove that is malformed, or from a connection without a       *)
(* Player, changes no Player and broadcasts nothing.                        *)
WellFormedNumber(a) == a.t = "number" /\ ~a.nan

WellFormedMove(data) ==
    /\ ~data.null
    /\ WellFormedNumber(data.x)
    /\ WellFormedNumber(data.y)
    /\ WellFormedNumber(data.angle)

C9_MalformedMoveIgnored ==
    [][\A c \in ConnIds, data \in MoveInputs :
          (PlayerMove(c, data) /\ (c \notin DOMAIN players \/ ~WellFormedMove(data)))
              => (players' = players /\ out' = <<>>)
      ]_vars

(* C10: the open connections are exactly the identities that have a Player. *)
C10_OnePlayerPerConnection == open = DOMAIN players

(* C15: an accepted playerMove of connection c sends one playerMoved with   *)
(* the identity c to every other connection and none to c; its x, y and     *)
(* angle are the ones stored for c, which are the clamped ones: a move to   *)
(* (-100, 50) is stored and broadcast as (20, 50).                          *)
(* (Under SpecMove.)                                                        *)
C15_MoveBroadcast ==
    [][\A c \in ConnIds, data \in MoveInputs :
          (PlayerMove(c, data) /\ MoveAccepted(c, data)) =>
              /\ \A r \in ConnIds :
                     Delivered(out', "playerMoved", r) =
                         IF r \in open \ {c} THEN 1 ELSE 0
              /\ \A i \in 1..Len(out') :
                     /\ out'[i].ev = "playerMoved"
                     /\ out'[i].id = c
                     /\ out'[i].arg = [x |-> players'[c].x, y |-> players'[c].y,
                                       angle |-> players'[c].angle]
                     /\ (data.x = Num(-100) /\ data.y = Num(50)) =>
                            (out'[i].arg.x = Num(20) /\ out'[i].arg.y = Num(50))
      ]_vars

(* the move to (-100, 50) of one of three connections went out as (20, 50)  *)
(* to the two others                                                        *)
C15_Witness ==
    /\ Len(out) = 1
    /\ out[1].ev = "playerMoved"
    /\ out[1].arg.x = Num(20)
    /\ out[1].arg.y = Num(50)
    /\ Cardinality(out[1].to) = 2
    /\ out[1].id \notin out[1].to
    /\ players[out[1].id].x = Num(20)

(* The instant of the last activity of a Player: its last accepted          *)
(* playerMove, or its connecting when it never sent one.                    *)
LastActive(p) == IF p.lastActivity # 0 THEN p.lastActivity ELSE p.connectedAt

(* C11: when the liveness sweep has run, no Player is left in the store     *)
(* that has been inactive for more than 600000 ms.                          *)
C11_SweepEvictsInactive ==
    [][Sweep =>
          \A c \in DOMAIN players' :
              now - LastActive(players'[c]) <= InactivityTimeout
      ]_vars

---------------------------------------------------------------------------
(* Properties of the audio relay, checked under SpecAudio *)

GoodAudio == [null |-> FALSE, data |-> TRUE]

(* C16: an audioStream that is malformed, or from a connection without a    *)
(* Player, changes neither a Player nor an audio statistic and relays       *)
(* nothing.                                                                 *)
C16_MalformedAudioIgnored ==
    [][\A c \in ConnIds, audioData \in AudioInputs :
          (AudioStream(c, audioData)
              /\ (c \notin DOMAIN players \/ audioData.null \/ ~audioData.data))
              => (players' = players /\ totalPackets' = totalPackets /\ out' = <<>>)
      ]_vars

(* The other players within 300 units of c, from the coordinates *)
Within300(c) ==
    {o \in DOMAIN players \ {c} :
        /\ ~players[c].x.nan /\ ~players[c].y.nan
        /\ ~players[o].x.nan /\ ~players[o].y.nan
        /\ (players[c].x.v - players[o].x.v) * (players[c].x.v - players[o].x.v)
           + (players[c].y.v - players[o].y.v) * (players[c].y.v - players[o].y.v)
           <= AudioRadius * AudioRadius}

Deliveries(s, r) ==
    Cardinality({i \in 1..Len(s) : s[i].ev = "audioStream" /\ r \in s[i].to})

(* C8: a well-formed frame of a connection c that has a Player is delivered *)
(* once to each player within 300 units of c if there is one, otherwise     *)
(* once to every other connection; to nobody else, and never to c.          *)
C8_AudioRecipients ==
    [][\A c \in ConnIds :
          (AudioStream(c, GoodAudio) /\ c \in DOMAIN players) =>
              LET N == Within300(c)
                  R == IF N # {} THEN N ELSE open \ {c}
              IN \A r \in ConnIds :
                     Deliveries(out', r) = IF r \in R THEN 1 ELSE 0
      ]_vars

(* three connections with Players; the frame of one went to one of the two  *)
(* others only                                                              *)
C8_Witness ==
    /\ Cardinality(DOMAIN players) = 3
    /\ Len(out) = 1
    /\ out[1].ev = "audioStream"
    /\ Cardinality(out[1].to) = 1

---------------------------------------------------------------------------
(* Properties of the audio timeout, checked under SpecTimeout *)

(* C17: when the liveness sweep has run, every Player whose last audio      *)
(* packet is more than 5000 ms old has audioEnabled = false; a Player whose *)
(* last audio packet is at most 5000 ms old keeps its audioEnabled; and a   *)
(* Player that the sweep removed was one whose last activity was more than  *)
(* 600000 ms old, so the audio timeout by itself removes nobody.            *)
C17_SweepAudioTimeout ==
    [][Sweep =>
          /\ \A c \in DOMAIN players' :
                 /\ now - players'[c].lastAudioPacket > AudioTimeout
                        => ~players'[c].audioEnabled
                 /\ now - players[c].lastAudioPacket <= AudioTimeout
                        => players'[c].audioEnabled = players[c].audioEnabled
          /\ \A c \in DOMAIN players \ DOMAIN players' :
                 /\ players[c].lastActivity # 0
                 /\ now - players[c].lastActivity > InactivityTimeout
      ]_vars

(* a Player streamed after it had connected and moved; 5001 ms later it is  *)
(* still in the store, its last move 5001 ms old, with audioEnabled = false *)
C17_Witness ==
    \E c \in DOMAIN players :
        /\ players[c].lastAudioPacket > players[c].connectedAt
        /\ players[c].lastActivity = players[c].lastAudioPacket
        /\ now - players[c].lastAudioPacket = AudioTimeout + 1
        /\ ~players[c].audioEnabled

---------------------------------------------------------------------------
(* Properties of the audio flag, checked under SpecVoice *)

(* C18: audioStateChanged with a boolean enabled, from a connection c that  *)
(* has a Player, sets the audioEnabled of that Player to it and sends one   *)
(* playerAudioState with the identity c and that value to every other       *)
(* connection, none to c; with an enabled that is not a boolean, or from a  *)
(* connection without a Player, it changes no Player and sends nothing.     *)
C18_AudioStateChanged ==
    [][\A c \in ConnIds, enabled \in AudioStateInputs :
          AudioStateChanged(c, enabled) =>
              IF c \in DOMAIN players /\ enabled \in {Bool(TRUE), Bool(FALSE)}
              THEN /\ players'[c].audioEnabled = (enabled = Bool(TRUE))
                   /\ \A r \in ConnIds :
                          Delivered(out', "playerAudioState", r) =
                              IF r \in open \ {c} THEN 1 ELSE 0
                   /\ \A i \in 1..Len(out') :
                          /\ out'[i].ev = "playerAudioState"
                          /\ out'[i].id = c
                          /\ out'[i].arg.audioEnabled = (enabled = Bool(TRUE))
              ELSE players' = players /\ out' = <<>>
      ]_vars

(* one of three connections switched its audio on and the two others were   *)
(* told, one of which had lost its Player to the sweep                      *)
C18_Witness ==
    /\ Len(out) = 1
    /\ out[1].ev = "playerAudioState"
    /\ out[1].arg.audioEnabled
    /\ players[out[1].id].audioEnabled
    /\ Cardinality(out[1].to) = 2
    /\ out[1].id \notin out[1].to
    /\ \E r \in out[1].to : r \notin DOMAIN players

---------------------------------------------------------------------------
(* Properties of the Player store, checked under SpecLife *)

(* C19: the health of every Player in the store is an integer from 0 to     *)
(* 100, and every Player is stored under the identity of one accepted       *)
(* connection, one Player at most for each.                                 *)
C19_HealthAndIdentity ==
    /\ \A c \in DOMAIN players : players[c].health \in 0..InitialHealth
    /\ DOMAIN players \subseteq 1..nextConn
    /\ Cardinality(DOMAIN players) <= nextConn

(* the last combat tick hit a Player, 600001 ms after the start: it is in   *)
(* the store of two Players with health 100                                 *)
C19_Witness ==
    /\ now > StartTime + InactivityTimeout
    /\ Cardinality(DOMAIN players) = 2
    /\ \E i \in 1..Len(out) :
           /\ out[i].ev = "playerDamaged"
           /\ out[i].id \in DOMAIN players
           /\ players[out[i].id].health = InitialHealth

---------------------------------------------------------------------------
(* Properties of the page, checked under SpecPage *)

(* C20: once destroy() of the AudioManager has returned, no microphone      *)
(* track is live, the audio context is closed and isTransmitting is false.  *)
C20_DestroyedIsSilent ==
    destroyed >= 1 =>
        /\ audio.microphone # "live"
        /\ audio.audioContext = "closed"
        /\ ~audio.isTransmitting

(* C27: when destroy() has returned while init() was waiting for the        *)
(* microphone permission, the step in which init() resumes leaves the       *)
(* manager torn down: no live microphone track, isTransmitting false, and   *)
(* no audioStream frame emitted.                                            *)
C27_ResumedInitStaysDestroyed ==
    [][(destroyed >= 1 /\ audio.init = "pending" /\ audio'.init # "pending")
          => /\ audio'.microphone # "live"
             /\ ~audio'.isTransmitting
             /\ frames' = frames
      ]_vars

---------------------------------------------------------------------------
(* Properties of the page's connection, checked under SpecConnection *)

(* C21: the page makes a bounded number of automatic connection attempts:   *)
(* after its first attempt has failed it opens a connection by itself at    *)
(* most 5 times (maxReconnectionAttempts) before it either is connected or  *)
(* stops trying.                                                            *)
C21_AttemptsBounded == attempts <= ReconnectionLimit

---------------------------------------------------------------------------
(* Properties of playerShoot, checked under SpecCombat *)

(* the sender of a playerShoot has a Player and either no accepted shot     *)
(* before or an accepted shot at least 200 ms ago                           *)
CooledDown(c) ==
    /\ c \in DOMAIN players
    /\ (players[c].lastShoot = 0 \/ now - players[c].lastShoot >= ShootCooldown)

(* C24: a playerShoot is accepted (a bullet is created and broadcast)       *)
(* exactly when its sender has a Player and no accepted shot before or one  *)
(* at least 200 ms ago, a request exactly 200 ms after the last accepted    *)
(* shot included; a rejected request changes no Player and no bullet and    *)
(* broadcasts nothing.                                                      *)
C24_ShootAcceptedIff ==
    [][\A c \in ConnIds :
          PlayerShoot(c) =>
              /\ CooledDown(c) <=> bulletIdCounter' # bulletIdCounter
              /\ bulletIdCounter' = bulletIdCounter =>
                     /\ out' = <<>>
                     /\ UNCHANGED <<players, bullets, timers>>
      ]_vars

---------------------------------------------------------------------------
(* Properties of bullets, checked under SpecDuel *)

(* C25: the bullet of an accepted playerShoot starts at the position and    *)
(* with the angle the store held for the shooter when the request was       *)
(* processed (what its last accepted playerMove left there), its speed is   *)
(* 300, it is stored, and bulletCreated for it goes to every open           *)
(* connection, the shooter included.                                        *)
C25_BulletFromShooter ==
    [][\A i \in 1..Len(out') :
          out'[i].ev = "bulletCreated" =>
              LET b == out'[i].arg
                  c == b.playerId
              IN /\ c \in DOMAIN players
                 /\ b.x = players[c].x
                 /\ b.y = players[c].y
                 /\ b.angle = players[c].angle
                 /\ b.speed = BulletSpeed
                 /\ out'[i].to = open
                 /\ c \in out'[i].to
                 /\ bullets'[b.id] = b
      ]_vars

(* the last handler created the bullet of a shooter that had moved to       *)
(* (790, 580) and turned to 90 degrees , with another connection open       *)
C25_Witness ==
    /\ Len(out) = 1
    /\ out[1].ev = "bulletCreated"
    /\ out[1].arg.x = Num(790)
    /\ out[1].arg.y = Num(580)
    /\ out[1].arg.angle = Num(90)
    /\ Cardinality(out[1].to) = 2

(* the Player p is less than 20 units from the bullet b *)
Within20(b, p) ==
    Less(DistanceSq(b.x, b.y, players[p].x, players[p].y), Num(HitRadius * HitRadius))

(* C26: a combat tick never names the owner of a bullet in a playerDamaged  *)
(* that this bullet triggered; and a bullet that the tick moved to a place  *)
(* inside the arena less than 20 units from its owner and from no other     *)
(* Player stays in the store, and the tick broadcasts no bulletDestroyed    *)
(* for it.                                                                  *)
C26_OwnerNeverHit ==
    [][Tick =>
          /\ \A i \in 1..Len(out') :
                 out'[i].ev = "playerDamaged" =>
                     out'[i].id # bullets[out'[i].arg.bullet].playerId
          /\ \A id \in DOMAIN bullets :
                 LET b == Advance(bullets[id])
                 IN (/\ ~OutOfBounds(b)
                     /\ b.playerId \in DOMAIN players
                     /\ Within20(b, b.playerId)
                     /\ \A p \in DOMAIN players \ {b.playerId} : ~Within20(b, p))
                    => /\ id \in DOMAIN bullets'
                       /\ bullets'[id] = b
                       /\ CountEv(out', "bulletDestroyed", id) = 0
      ]_vars

(* a tick has moved the bullet of the Player at (790, 580) to (790, 585),   *)
(* 5 units from its owner and more than 20 from the other Player: it is     *)
(* still stored and the tick broadcast nothing                              *)
C26_Witness ==
    /\ out = <<>>
    /\ Cardinality(DOMAIN players) = 2
    /\ \E id \in DOMAIN bullets :
           LET b == bullets[id]
           IN /\ b.x = Num(790) /\ b.y = Num(585)
              /\ b.playerId \in DOMAIN players
              /\ players[b.playerId].x = Num(790)
              /\ players[b.playerId].y = Num(580)
              /\ \A p \in DOMAIN players \ {b.playerId} : ~Within20(b, p)

(* the number of playerDamaged messages in s that name the Player p *)
DamagedTimes(s, p) ==
    Cardinality({i \in 1..Len(s) : s[i].ev = "playerDamaged" /\ s[i].id = p})

(* C29: the store holds, for a Player that n playerDamaged messages have    *)
(* named, the health max(0, 100 - 10 n).  Stated over one combat tick:      *)
(* the tick lowers the health of every Player by 10 for each playerDamaged  *)
(* it broadcasts for it, not below 0.                                       *)
C29_HealthFollowsDamage ==
    [][Tick =>
          \A p \in DOMAIN players' :
              players'[p].health =
                  LET h == players[p].health - Damage * DamagedTimes(out', p)
                  IN IF h < 0 THEN 0 ELSE h
      ]_vars

---------------------------------------------------------------------------
(* Properties of the audio codec, checked under SpecCodec *)

RECURSIVE TwoTo(_)
TwoTo(k) == IF k = 0 THEN 1 ELSE 2 * TwoTo(k - 1)

(* | f - m / SampleUnit | <= 1 / 32767 for a Float32 f and a sample m.     *)
(* With f = n / 2^p and SampleUnit = 2^16 the difference is D / 2^p for    *)
(* D = | n - |m| * 2^(p - 16) |, and D / 2^p <= 1 / 32767 exactly when     *)
(* D <= 2^p / 32767, of which the integer part is                          *)
(* 2^(p - 15) + 2^(p - 15) \div 32767, as 2^15 = 32767 + 1.                *)
WithinOneStep(f, m) ==
    LET abs == IF m < 0 THEN -m ELSE m
    IN IF f.n = 0
       THEN abs * Int16Max <= SampleUnit
       ELSE /\ f.neg = (m < 0)
            /\ f.p >= 16
            /\ LET scaled == abs * TwoTo(f.p - 16)
                   D == IF f.n >= scaled THEN f.n - scaled ELSE scaled - f.n
               IN D <= TwoTo(f.p - 15) + (TwoTo(f.p - 15) \div Int16Max)

(* C22: for every sample s of [-1, 1], decompressAudio(compressAudio([s]))  *)
(* is one sample that differs from s by at most 1 / 32767.                  *)
C22_RoundTripWithinStep ==
    (heard # <<>> /\ \A i \in 1..Len(pcm) : pcm[i] \in (-SampleUnit)..SampleUnit)
        => /\ Len(heard) = Len(pcm)
           /\ \A i \in 1..Len(pcm) : WithinOneStep(heard[i], pcm[i])

(* the sample -65535 / 65536, just above -1: compressed to -32766, heard    *)
(* as -32766 / 32767 rounded to a Float32                                   *)
C22_Witness ==
    /\ pcm = << 1 - SampleUnit >>
    /\ heard # <<>>
    /\ heard[1].neg
    /\ heard[1].p = 24

---------------------------------------------------------------------------
(* Properties of the page's mirror, checked under SpecMirror *)

(* the page is connected, its connection has not dropped since the page     *)
(* loaded, and the server holds it open                                     *)
Uninterrupted ==
    /\ socket.link = "open"
    /\ socket.id \in open
    /\ destroyed = 0
    /\ attempts = 0

C30_ReconnectReplacesMirror ==
    [][(socket.link # "open" /\ socket'.link = "open" /\ game.myPlayerId # 0)
          => /\ DOMAIN game'.players = DOMAIN players'
             /\ DOMAIN game'.bullets = DOMAIN bullets'
      ]_vars

(* C28: when the server has handled a playerMove of the page, the position  *)
(* the page holds for its own player is the position the server stores for  *)
(* it, also when the server clamped it.  (Under SpecPredict.)               *)
C28_OwnPositionAgrees ==
    (socket.link = "open" /\ socket.id \in DOMAIN players
        /\ game.myPlayerId \in DOMAIN game.players)
        => /\ game.players[game.myPlayerId].x = players[socket.id].x
           /\ game.players[game.myPlayerId].y = players[socket.id].y

(* C31: while the page is connected, the audio-enabled value it last        *)
(* received for another Player in playerAudioState is that Player's         *)
(* audioEnabled in the server's store, whichever handler changed the flag.  *)
(* (Under SpecIndicator.)                                                   *)
C31_AudioStateMirrored ==
    socket.link = "open" =>
        \A c \in (DOMAIN players \cap DOMAIN game.playerAudioStates) \ {socket.id} :
            game.playerAudioStates[c].audioEnabled = players[c].audioEnabled

---------------------------------------------------------------------------
(* Properties of the activity stamp, checked under SpecIdle *)

SameActivity ==
    \A k \in DOMAIN players :
        k \in DOMAIN players' /\ players'[k].lastActivity = players[k].lastActivity

---------------------------------------------------------------------------
(* Properties of the bullets of a departed Player, checked under SpecLife *)

Orphan(b) == bullets[b].playerId \notin DOMAIN players

Touches(a, p) ==
    Less(DistanceSq(a.x, a.y, players[p].x, players[p].y), Num(HitRadius * HitRadius))

DamagedBy(s, p, b) ==
    \E i \in 1..Len(s) :
        s[i].ev = "playerDamaged" /\ s[i].id = p /\ s[i].arg.bullet = b

(* C33: the disconnect handler and the liveness sweep leave the bullets     *)
(* and their timers as they are; a combat tick advances the bullet of a     *)
(* departed Player like any other, damages every Player it comes within     *)
(* 20 of, and deletes it only when it is out of bounds or has hit.          *)
C33_OrphanBulletsLiveOn ==
    [][/\ ((\E c \in ConnIds : Disconnect(c)) \/ Sweep)
              => (bullets' = bullets /\ timers' = timers)
       /\ Tick =>
              \A b \in DOMAIN bullets :
                  Orphan(b) =>
                      LET a == Advance(bullets[b])
                      IN /\ b \in DOMAIN bullets' => bullets'[b] = a
                         /\ b \notin DOMAIN bullets'
                                <=> (OutOfBounds(a)
                                        \/ \E p \in DOMAIN players : Touches(a, p))
                         /\ \A p \in DOMAIN players :
                                (~OutOfBounds(a) /\ Touches(a, p))
                                    => DamagedBy(out', p, b)
      ]_vars

(* a combat tick has just damaged a Player with the bullet of a Player      *)
(* that is no longer in the store                                           *)
C33_Witness ==
    \E i \in 1..Len(out) :
        /\ out[i].ev = "playerDamaged"
        /\ out[i].arg.bullet \in DOMAIN created
        /\ created[out[i].arg.bullet].owner \notin DOMAIN players
        /\ out[i].id \in DOMAIN players

---------------------------------------------------------------------------
(* Property of the two cooldowns, refuted under SpecJitter *)

(* C34: every playerShoot of the page, which emits them at least 500 ms     *)
(* apart, is accepted when it reaches the server: a bullet is created.      *)
C34_PageShotsAccepted ==
    [][ShootArrives => bulletIdCounter' = bulletIdCounter + 1]_vars

---------------------------------------------------------------------------
(* Property of the number of live bullets, checked under SpecBarrage *)

LiveBulletsOf(c) == {b \in DOMAIN bullets : bullets[b].playerId = c}

(* C35: the store never holds more than 15 bullets of one connection, the   *)
(* bullet timeouts firing on time.                                          *)
C35_AtMostFifteenLive ==
    \A c \in ConnIds : Cardinality(LiveBulletsOf(c)) <= 15

(* 15 bullets of one connection are in the store, the oldest not yet 3000   *)
(* ms old                                                                   *)
C35_Witness ==
    \E c \in ConnIds :
        /\ Cardinality(LiveBulletsOf(c)) = 15
        /\ \A b \in LiveBulletsOf(c) : now < bullets[b].createdAt + BulletLifetime

---------------------------------------------------------------------------
(* Property of the deletion of bullets, checked under SpecExpiry *)

DestroyedIn(s, k) ==
    \E i \in 1..Len(s) : s[i].ev = "bulletDestroyed" /\ s[i].id = k

(* C36: a bullet leaves the server's store, or the page's Map, only in a    *)
(* step that broadcasts bulletDestroyed with its own identity, the identity *)
(* it was created with; the timeout of a bullet that was destroyed before   *)
(* leaves the store as it is.                                               *)
C36_OnlyNamedBulletRemoved ==
    [][/\ \A k \in DOMAIN bullets \ DOMAIN bullets' :
              /\ DestroyedIn(out', k)
              /\ bullets[k].id = k
              /\ bullets[k].playerId = created[k].owner
              /\ bullets[k].createdAt = created[k].at
       /\ \A k \in DOMAIN game.bullets \ DOMAIN game.bullets' :
              /\ DestroyedIn(out', k)
              /\ game.bullets[k].playerId = created[k].owner
       /\ \A b \in BulletIds :
              (ExpireBullet(b) /\ b \notin DOMAIN bullets) => bullets' = bullets
      ]_vars

(* the timeout of a bullet that a tick had destroyed has just fired, while  *)
(* another bullet is in the store and in the page's Map                     *)
C36_Witness ==
    \E b \in BulletIds, k \in DOMAIN bullets \cap DOMAIN game.bullets :
        /\ nDestroyed[b] = 2
        /\ out = << IoEmit("bulletDestroyed", b, NoArg) >>
        /\ b \notin DOMAIN timers
        /\ now = created[b].at + BulletLifetime
        /\ k # b
        /\ socket.link = "open"

---------------------------------------------------------------------------
(* Property of muting, checked under SpecMute *)

HearsFrame(s) ==
    /\ socket.link = "open"
    /\ \E i \in 1..Len(s) : s[i].ev = "audioStream" /\ socket.id \in s[i].to

---------------------------------------------------------------------------
(* Property of the retry of init(), refuted under SpecRetry *)

(* C38: an AudioManager never has more than one AudioContext that is not    *)
(* closed, however often init() fails and is retried.                       *)
C38_OneOpenContext == audio.openContexts <= 1

---------------------------------------------------------------------------
(* Property of push-to-talk, refuted under SpecTalk *)

(* C39: the release of KeyV that follows its press at once leaves           *)
(* isTransmitting as it was before the press.                               *)
C39_ReleaseRestores ==
    [][(KeyVUp /\ talk.pressedFrom # "none")
          => talk'.isTransmitting = (talk.pressedFrom = "on")]_vars

---------------------------------------------------------------------------
(* Property of the rounding of compressAudio, refuted under SpecCodec *)

(* the greatest integer not above the clamped product of a sample and 32767 *)
FloorScaled(m) == Clamp16(m * Int16Max) \div SampleUnit

(* C40: what a receiver hears for a sample s is q / 32767 for the 16-bit    *)
(* value q = floor(s * 32767) clamped to [-32768, 32767], for negative      *)
(* samples too.                                                             *)
C40_CompressIsFloor ==
    heard # <<>> =>
        \A i \in 1..Len(pcm) : heard[i] = Fround(FloorScaled(pcm[i]), Int16Max)

====
